---- MODULE Spec2Model ----
(***************************************************************************)
(* Model of the ingestion process of binance_watcher: one run of           *)
(* run_socket.py for one symbol.  The live consumer (run_socket) and the   *)
(* catch-up thread it starts (_kline_catch_up / _trade_catch_up) share the *)
(* module-level connection `conn`, cursor `cur` and set `tables` of        *)
(* database.py.  The repository holds two copies of the program: the one   *)
(* at the top level ("root") and the one under src/ ("src"); they differ   *)
(* in add_multiple_klines.                                                 *)
(*                                                                         *)
(* Atomic steps are the calls into the driver (cur.execute, cur.fetchall,  *)
(* conn.commit) and the reads and writes of the global `tables`.           *)
(***************************************************************************)
EXTENDS Integers, Sequences, FiniteSets, TLC

(***************************************************************************)
(* Bounds of the model.                                                    *)
(***************************************************************************)
\* number of events the feed delivers in one run
MaxEvents == 2
\* number of events the feed delivers when the consumer runs alone
MaxLiveEvents == 3
\* number of records a historical fetch returns at most
MaxHist == 3
\* rows per chunk: stands for the 1000 of chunks() and yield_trades()
ChunkRows == 2
\* largest value of an INTEGER column: stands for 2^31 - 1
IntegerMax == 9
\* longest list, and largest rows argument, chunks is called with on its own
MaxData == 4
MaxRows == 3
\* longest list a normalising function is called with on its own
MaxRaw == 2

\* keys (start_time / time) of the historical records
Keys == 1 .. MaxHist
\* a value that does not fit an INTEGER column
TooBig == IntegerMax + 1

Threads == {"live", "bf"}
Copies == {"root", "src"}
\* the socket kinds run_socket tells apart; any other value takes the branch
\* of the ticker socket
Sockets == {"kline", "trade", "ticker"}
\* symbols as sequences of characters: one starting with a letter, one with a digit
Symbols == {<<"B">>, <<"1", "B">>}
Interval == <<"1", "m">>

(***************************************************************************)
(* Strings.                                                                *)
(***************************************************************************)
Digits == {"0", "1", "2", "3", "4", "5", "6", "7", "8", "9"}

\* str.lower() on one character, and on a string
LowerChar(c) == IF c = "B" THEN "b" ELSE c

Lower(s) == [i \in 1 .. Len(s) |-> LowerChar(s[i])]

\* a format_table_name whose prefix is itself a digit
format_table_name_digit_prefix(table_name) ==
    IF Len(table_name) > 0 /\ table_name[1] \in Digits
    THEN <<"0">> \o table_name
    ELSE table_name

\* a format_table_name that prefixes nothing
format_table_name_unprefixed(table_name) == table_name

\* database.format_table_name: int(table_name[0]) succeeds on a digit; the
\* bare except covers the empty name (IndexError) and a non-digit (ValueError)
format_table_name(table_name) ==
    IF Len(table_name) > 0 /\ table_name[1] \in Digits
    THEN <<"n", "u", "m", "_">> \o table_name
    ELSE table_name

\* f"{k['s']}_{k['i']}".lower() and f"{symbol}_trade".lower(), formatted
kline_table_name(s, i) == format_table_name(Lower(s \o <<"_">> \o i))

trade_table_name(s) == format_table_name(Lower(s \o <<"_", "t", "r", "a", "d", "e">>))

\* f"{symbol}_{interval}" of the src copy's add_multiple_klines
bulk_kline_target(s, i) == s \o <<"_">> \o i

(***************************************************************************)
(* Records.  A row is the tuple of values in column order.                 *)
(***************************************************************************)
KLINE_COLUMNS_LIST ==
    <<"start_time", "end_time", "first_trade_id", "last_trade_id",
      "open", "close", "high", "low", "volume",
      "number_of_trades", "final_bar",
      "quote_volume", "volume_of_active_buy", "quote_volume_of_active_buy">>

KLINE_COLUMNS ==
    <<"BIGINT", "BIGINT", "INTEGER", "INTEGER",
      "FLOAT", "FLOAT", "FLOAT", "FLOAT", "FLOAT",
      "INTEGER", "BOOL",
      "FLOAT", "FLOAT", "FLOAT">>

KLINE_KEYS == <<"t", "T", "f", "L", "o", "c", "h", "l", "v", "n", "x", "q", "V", "Q">>

TRADE_COLUMNS_LIST ==
    <<"event_time", "trade_id", "price", "quantity", "buyer_order_id",
      "seller_order_id", "trade_time", "maker">>

TRADE_COLUMNS ==
    <<"BIGINT", "INTEGER", "FLOAT", "FLOAT", "INTEGER",
      "INTEGER", "BIGINT", "BOOLEAN">>

TRADE_KEYS == <<"E", "t", "p", "q", "b", "a", "T", "m">>

\* every k[x] for x in KEYS is there
Complete(d, keys) == \A i \in 1 .. Len(keys) : keys[i] \in DOMAIN d

\* stands in a tuple for the value of a field the message lacks; reading such
\* a field raises KeyError, and no such tuple reaches the store
Missing == -2

\* vals = tuple([k[x] for x in KEYS])
Vals(d, keys) ==
    [i \in 1 .. Len(keys) |-> IF keys[i] \in DOMAIN d THEN d[keys[i]] ELSE Missing]

\* a message without the field f
Without(d, f) == [x \in DOMAIN d \ {f} |-> d[x]]

\* the primary key is the first column of both kinds of entity
KeyOf(row) == row[1]

(***************************************************************************)
(* Inputs: what the feed pushes and what the historical endpoints return.  *)
(***************************************************************************)
\* res['k'] of a kline message; the close and the first trade id vary
LiveKline(s, t, c, f) ==
    [t |-> t, T |-> t, s |-> s, i |-> Interval, f |-> f, L |-> 8,
     o |-> 1, c |-> c, h |-> 4, l |-> 1, v |-> 6, n |-> 4, x |-> FALSE,
     q |-> 1, V |-> 2, Q |-> 3]

\* a trade message; the price and the trade id vary
LiveTrade(s, E, p, t) ==
    [e |-> "trade", E |-> E, s |-> s, t |-> t, p |-> p, q |-> 1,
     b |-> 8, a |-> 5, T |-> E, m |-> TRUE, M |-> TRUE]

\* one row of client.get_klines: Python index j is position j + 1
HistKline(t) == <<t, 1, 5, 1, 5, 6, t, 1, 4, 2, 3, 0>>

\* one row of client.get_historical_trades
HistTrade(time, id) ==
    [id |-> id, price |-> 5, qty |-> 1, quoteQty |-> 5, time |-> time,
     isBuyerMaker |-> FALSE, isBestMatch |-> TRUE]

\* two events for one key, one for another, one the store rejects, and one
\* that lacks a field ('c' of a bar, 'p' of a trade)
LiveKlines(s) ==
    {LiveKline(s, 1, 3, 7), LiveKline(s, 1, 4, 7), LiveKline(s, 2, 3, 7),
     LiveKline(s, 2, 3, TooBig), Without(LiveKline(s, 1, 3, 7), "c")}

LiveTrades(s) ==
    {LiveTrade(s, 1, 3, 7), LiveTrade(s, 1, 4, 7), LiveTrade(s, 2, 3, 7),
     LiveTrade(s, 2, 3, TooBig), Without(LiveTrade(s, 1, 3, 7), "p")}

\* what the ticker socket pushes: the code only logs it
TickerMessages(s) == {[e |-> "24hrTicker", s |-> s, c |-> 3], [e |-> "24hrTicker", s |-> s, c |-> 4]}

LiveEvents(sock, s) ==
    IF sock = "kline" THEN LiveKlines(s)
    ELSE IF sock = "trade" THEN LiveTrades(s)
    ELSE TickerMessages(s)

\* sequences over S of length at most n
SeqsUpTo(S, n) == UNION {[1 .. m -> S] : m \in 0 .. n}

\* the endpoints answer with the most recent records in chronological order:
\* consecutive bars, counted from 1, and trades of which two may carry the
\* same time
Consecutive(q) ==
    /\ Len(q) > 0 => q[1] = 1
    /\ \A i \in 1 .. Len(q) - 1 : q[i + 1] = q[i] + 1

NoGaps(q) ==
    /\ Len(q) > 0 => q[1] = 1
    /\ \A i \in 1 .. Len(q) - 1 : q[i + 1] \in {q[i], q[i] + 1}
    /\ Cardinality({i \in 1 .. Len(q) - 1 : q[i + 1] = q[i]}) <= 1

\* a row whose number of trades, and a trade whose id, does not fit the
\* INTEGER column it goes to
BadHistKline(t) == [HistKline(t) EXCEPT ![9] = TooBig]

BadHistTrade(time) == HistTrade(time, TooBig)

\* the answers of the endpoints: records the store accepts, the last of which
\* may be one it rejects
HistKlineLists ==
    LET good == {[i \in 1 .. Len(q) |-> HistKline(q[i])] :
                    q \in {r \in SeqsUpTo(Keys, MaxHist) : Consecutive(r)}}
    IN  good \cup {[h EXCEPT ![Len(h)] = BadHistKline(h[Len(h)][1])] :
                      h \in good \ {<<>>}}

HistTradeLists ==
    LET good == {[i \in 1 .. Len(q) |-> HistTrade(q[i], 7)] :
                    q \in {r \in SeqsUpTo(Keys, MaxHist) : NoGaps(r)}}
    IN  good \cup {[h EXCEPT ![Len(h)] = BadHistTrade(h[Len(h)].time)] :
                      h \in good \ {<<>>}}

HistLists(sock) == IF sock = "kline" THEN HistKlineLists ELSE HistTradeLists

(***************************************************************************)
(* Normalisation and chunking.                                             *)
(***************************************************************************)
\* a formatting that takes the close from the high and the high from the close
format_historical_kline_swapped(s, i, l) ==
    [t |-> l[1], T |-> l[7], f |-> -1, L |-> -1, o |-> l[2], c |-> l[3],
     h |-> l[5], l |-> l[4], v |-> l[6], n |-> l[9], x |-> TRUE, q |-> l[8],
     V |-> l[10], Q |-> l[11], s |-> s, i |-> i]

\* database.format_historical_klines, one row
format_historical_kline(s, i, l) ==
    [t |-> l[1], T |-> l[7], f |-> -1, L |-> -1, o |-> l[2], c |-> l[5],
     h |-> l[3], l |-> l[4], v |-> l[6], n |-> l[9], x |-> TRUE, q |-> l[8],
     V |-> l[10], Q |-> l[11], s |-> s, i |-> i]

format_historical_klines(s, i, klines) ==
    [j \in 1 .. Len(klines) |-> format_historical_kline(s, i, klines[j])]

\* the slice data[a:b] for 0 <= a <= b: Python counts from 0 and stops at
\* the end of the list
Slice(data, a, b) == SubSeq(data, a + 1, IF b < Len(data) THEN b ELSE Len(data))

\* a chunks that yields only the slices that are full
RECURSIVE chunks_full_only(_, _, _)
chunks_full_only(data, rows, i) ==
    IF i + rows > Len(data) THEN <<>>
    ELSE <<Slice(data, i, i + rows)>> \o chunks_full_only(data, rows, i + rows)

\* database.chunks from index i on: for i in range(0, len(data), rows):
\* yield data[i:i + rows]
RECURSIVE chunks_from(_, _, _)
chunks_from(data, rows, i) ==
    IF i >= Len(data) THEN <<>>
    ELSE <<Slice(data, i, i + rows)>> \o chunks_from(data, rows, i + rows)

chunks(data, rows) == chunks_from(data, rows, 0)

\* the conversion yield_trades applies to a record that has 'isBuyerMaker'
yield_trades_vals(t) ==
    IF "isBuyerMaker" \in DOMAIN t
    THEN Vals([E |-> t.time, t |-> t.id, p |-> t.price, q |-> t.qty, b |-> -1,
               a |-> -1, T |-> -1, m |-> t.isBuyerMaker], TRADE_KEYS)
    ELSE Vals(t, TRADE_KEYS)

\* a normalisation that puts the sentinel in event_time and the time in trade_time
format_historical_trade_event_time_unknown(s, t) ==
    [E |-> -1, t |-> t.id, p |-> t.price, q |-> t.qty, b |-> -1, a |-> -1,
     T |-> t.time, m |-> t.isBuyerMaker, s |-> s]

\* database.format_historical_trades, one record
format_historical_trade(s, t) ==
    [E |-> t.time, t |-> t.id, p |-> t.price, q |-> t.qty, b |-> -1, a |-> -1,
     T |-> -1, m |-> t.isBuyerMaker, s |-> s]

format_historical_trades(s, trades) ==
    [j \in 1 .. Len(trades) |-> format_historical_trade(s, trades[j])]

\* database.yield_trades: the loop over i with its stack; `out` collects what
\* the generator yields
RECURSIVE yield_trades_loop(_, _, _, _, _)
yield_trades_loop(trades, i, stack, out, rows) ==
    IF i > Len(trades)
    THEN IF stack # <<>> THEN Append(out, stack) ELSE out
    ELSE LET stack1 == Append(stack, yield_trades_vals(trades[i]))
         IN  IF Len(stack1) = rows
             THEN yield_trades_loop(trades, i + 1, <<>>, Append(out, stack1), rows)
             ELSE yield_trades_loop(trades, i + 1, stack1, out, rows)

yield_trades(trades, rows) == yield_trades_loop(trades, 1, <<>>, <<>>, rows)

\* The generator object of yield_trades: `at` is where it is suspended
\* ("start" before the first next(), "full" at the yield inside the loop,
\* "rest" at the yield after it, "end" once it has returned), i the index of
\* the loop and stack the one list it appends to, yields and clears.
NewGenerator == [at |-> "start", i |-> 0, stack |-> <<>>]

\* the while loop from index i (counted from 0) up to its next yield
RECURSIVE yield_trades_resume(_, _, _, _)
yield_trades_resume(trades, i, stack, rows) ==
    IF i >= Len(trades)
    THEN IF stack # <<>> THEN [at |-> "rest", i |-> i, stack |-> stack]
         ELSE [at |-> "end", i |-> i, stack |-> stack]
    ELSE LET stack1 == Append(stack, yield_trades_vals(trades[i + 1]))
         IN  IF Len(stack1) = rows THEN [at |-> "full", i |-> i, stack |-> stack1]
             ELSE yield_trades_resume(trades, i + 1, stack1, rows)

\* next(generator): after the yield in the loop come stack.clear() and
\* i += 1; after the last yield the generator returns (StopIteration)
yield_trades_next(trades, g, rows) ==
    IF g.at = "start" THEN yield_trades_resume(trades, 0, <<>>, rows)
    ELSE IF g.at = "full" THEN yield_trades_resume(trades, g.i + 1, <<>>, rows)
    ELSE [g EXCEPT !.at = "end"]

\* a loop that reads the chunk only after it has asked for the next one
RECURSIVE add_multiple_trades_loop_reads_late(_, _, _, _)
add_multiple_trades_loop_reads_late(trades, g, rows, stmts) ==
    LET g1 == yield_trades_next(trades, g, rows)
    IN  IF g1.at = "end" \/ g1.stack = <<>> THEN stmts
        ELSE add_multiple_trades_loop_reads_late(
                 trades, g1, rows,
                 Append(stmts, yield_trades_next(trades, g1, rows).stack))

\* the `while 1` of add_multiple_trades: chunk = next(generator) is the
\* generator's stack itself, and the statement is built from what that list
\* holds before next() is called again; stmts collects the statements' rows
RECURSIVE add_multiple_trades_loop(_, _, _, _)
add_multiple_trades_loop(trades, g, rows, stmts) ==
    LET g1 == yield_trades_next(trades, g, rows)
    IN  IF g1.at = "end" \/ g1.stack = <<>> THEN stmts
        ELSE add_multiple_trades_loop(trades, g1, rows, Append(stmts, g1.stack))

\* concatenation of a sequence of sequences
RECURSIVE Flatten(_)
Flatten(ss) == IF ss = <<>> THEN <<>> ELSE Head(ss) \o Flatten(Tail(ss))

(***************************************************************************)
(* The store behind the shared connection.  A store value is a record      *)
(*   db        the entities visible to the connection's open transaction:  *)
(*             name -> [columns, rows]                                     *)
(*   committed the entities as of the last commit                          *)
(*   aborted   a statement of the open transaction has failed; every       *)
(*             statement fails until the transaction ends                  *)
(*   cur       the result the shared cursor holds: has = FALSE when the    *)
(*             last statement returned no rows to fetch                    *)
(***************************************************************************)
Ext(f, n, v) == [x \in DOMAIN f \cup {n} |-> IF x = n THEN v ELSE f[x]]

NoTables == [x \in {} |-> 0]

NoResult == [has |-> FALSE, rows |-> {}]

\* the store folds an unquoted identifier to lower case and rejects one that
\* starts with a digit
Fold(name) == Lower(name)

ValidIdent(name) == Len(name) > 0 /\ name[1] \notin Digits

\* the store's coercion of a value to a column's type
Coercible(type, v) ==
    IF type = "INTEGER" THEN v >= -IntegerMax - 1 /\ v <= IntegerMax ELSE TRUE

RowCoercible(columns, row) ==
    /\ Len(row) = Len(columns)
    /\ \A i \in 1 .. Len(columns) : Coercible(columns[i], row[i])

\* one VALUES row under ON CONFLICT (key) DO UPDATE SET (all) = (EXCLUDED.all)
\* or ON CONFLICT (key) DO NOTHING
\* a DO NOTHING that replaces the row it conflicts with
UpsertDoNothing_replaces(rows, row) ==
    {r \in rows : KeyOf(r) # KeyOf(row)} \cup {row}

UpsertDoNothing(rows, row) ==
    IF \E r \in rows : KeyOf(r) = KeyOf(row) THEN rows ELSE rows \cup {row}

\* a DO UPDATE that adds the incoming fourth column to the stored one
UpsertDoUpdate_accumulates(rows, row) ==
    {r \in rows : KeyOf(r) # KeyOf(row)}
        \cup {[row EXCEPT ![4] = @ + r[4]] : r \in {q \in rows : KeyOf(q) = KeyOf(row)}}
        \cup (IF \E r \in rows : KeyOf(r) = KeyOf(row) THEN {} ELSE {row})

\* a DO UPDATE that sets only the columns up to the sixth
UpsertDoUpdate_some_columns(rows, row) ==
    {r \in rows : KeyOf(r) # KeyOf(row)}
        \cup {[i \in 1 .. Len(row) |-> IF i <= 6 THEN row[i] ELSE r[i]] :
                 r \in {q \in rows : KeyOf(q) = KeyOf(row)}}
        \cup (IF \E r \in rows : KeyOf(r) = KeyOf(row) THEN {} ELSE {row})

\* a DO UPDATE that adds the incoming row beside the one it conflicts with
UpsertDoUpdate_appends(rows, row) ==
    rows \cup {row}

UpsertDoUpdate(rows, row) ==
    {r \in rows : KeyOf(r) # KeyOf(row)} \cup {row}

Upsert(rows, row, update) ==
    IF update THEN UpsertDoUpdate(rows, row) ELSE UpsertDoNothing(rows, row)

RECURSIVE UpsertAll(_, _, _)
UpsertAll(rows, vals, update) ==
    IF vals = <<>> THEN rows
    ELSE UpsertAll(Upsert(rows, Head(vals), update), Tail(vals), update)

\* DO UPDATE may not touch one row twice in a statement
AffectsTwice(vals) == \E i, j \in 1 .. Len(vals) : i # j /\ KeyOf(vals[i]) = KeyOf(vals[j])

\* a failed statement that makes the transaction's changes permanent
Failed_commits(st) ==
    [st EXCEPT !.committed = st.db, !.aborted = TRUE, !.cur = NoResult]

\* a failed statement: the transaction's changes are gone, the cursor is reset
Failed(st) ==
    [st EXCEPT !.db = st.committed, !.aborted = TRUE, !.cur = NoResult]

\* cur.execute of CREATE TABLE IF NOT EXISTS name(columns)
ExecCreate(st, name, columns) ==
    IF st.aborted \/ ~ValidIdent(name)
    THEN [ok |-> FALSE, st |-> Failed(st)]
    ELSE [ok |-> TRUE,
          st |-> [st EXCEPT
                    !.db = IF Fold(name) \in DOMAIN st.db THEN st.db
                           ELSE Ext(st.db, Fold(name), [columns |-> columns, rows |-> {}]),
                    !.cur = NoResult]]

\* a store without the entity n
Drop(d, n) == [x \in DOMAIN d \ {n} |-> d[x]]

\* cur.execute of DROP TABLE name
ExecDrop(st, name) ==
    IF st.aborted \/ ~ValidIdent(name) \/ Fold(name) \notin DOMAIN st.db
    THEN [ok |-> FALSE, st |-> Failed(st)]
    ELSE [ok |-> TRUE, st |-> [st EXCEPT !.db = Drop(@, Fold(name)), !.cur = NoResult]]

\* cur.execute of SELECT relname FROM pg_class ...
ExecSelect(st) ==
    IF st.aborted
    THEN [ok |-> FALSE, st |-> Failed(st)]
    ELSE [ok |-> TRUE, st |-> [st EXCEPT !.cur = [has |-> TRUE, rows |-> DOMAIN st.db]]]

\* cur.execute of INSERT INTO target (columns) VALUES ... ON CONFLICT ...
InsertFails(st, target, vals, update) ==
    \/ st.aborted
    \/ ~ValidIdent(target)
    \/ Fold(target) \notin DOMAIN st.db
    \/ \E i \in 1 .. Len(vals) : ~RowCoercible(st.db[Fold(target)].columns, vals[i])
    \/ update /\ AffectsTwice(vals)

ExecInsert(st, target, vals, update) ==
    IF InsertFails(st, target, vals, update)
    THEN [ok |-> FALSE, st |-> Failed(st)]
    ELSE [ok |-> TRUE,
          st |-> [st EXCEPT
                    !.db[Fold(target)].rows = UpsertAll(@, vals, update),
                    !.cur = NoResult]]

\* conn.commit(): ending a failed transaction rolls it back and raises nothing
Commit(st) ==
    IF st.aborted
    THEN [st EXCEPT !.db = st.committed, !.aborted = FALSE]
    ELSE [st EXCEPT !.committed = st.db]

\* cur.fetchall(): raises when the cursor holds no result, else returns the
\* rows not yet fetched
Fetchall(st) ==
    IF st.cur.has
    THEN [ok |-> TRUE, rows |-> st.cur.rows, st |-> [st EXCEPT !.cur.rows = {}]]
    ELSE [ok |-> FALSE, rows |-> {}, st |-> st]

(***************************************************************************)
(* The process.                                                            *)
(***************************************************************************)
VARIABLES
    copy,       \* which copy of the program runs: "root" or "src"
    socket,     \* run_socket's socket argument
    symbol,     \* run_socket's symbol_pair argument
    store,      \* the connection, its cursor and the store behind them
    tables,     \* database.tables
    pc,         \* where each thread is
    job,        \* the write each thread is carrying out
    fetched,    \* update_tables' local _tables, per thread
    delivered,  \* the events tscm.recv() has returned so far
    hist,       \* what the historical endpoint returned to the catch-up thread
    err,        \* the call whose exception ended each thread, "none" if none did
    existed,    \* whether the entity was in the store when the process started
    connection, \* the client's connection: "none", "open" or "closed"
    cancelled,  \* whether the consumer has been asked from outside to stop
    arg,        \* a call of one function of the database module: its name and arguments
    ret         \* what that call returned, once it has

vars == <<copy, socket, symbol, store, tables, pc, job, fetched, delivered, hist,
          err, existed, connection, cancelled, arg, ret>>

\* the entity the process writes to, and its column types
Entity == IF socket = "kline" THEN kline_table_name(symbol, Interval)
          ELSE trade_table_name(symbol)

Columns == IF socket = "kline" THEN KLINE_COLUMNS ELSE TRADE_COLUMNS

NoJob == [tbl |-> <<>>, target |-> <<>>, stmts |-> <<>>, next |-> 1,
          update |-> FALSE, recheck |-> FALSE, malformed |-> FALSE]

\* add_kline(res['k']) and add_trade(res) of run_socket: update defaults to True
live_job(res) ==
    IF socket = "kline"
    THEN [tbl |-> kline_table_name(res.s, res.i),
          target |-> kline_table_name(res.s, res.i),
          stmts |-> << <<Vals(res, KLINE_KEYS)>> >>, next |-> 1,
          update |-> TRUE, recheck |-> FALSE,
          malformed |-> ~Complete(res, KLINE_KEYS)]
    ELSE [tbl |-> trade_table_name(res.s),
          target |-> trade_table_name(res.s),
          stmts |-> << <<Vals(res, TRADE_KEYS)>> >>, next |-> 1,
          update |-> TRUE, recheck |-> FALSE,
          malformed |-> ~Complete(res, TRADE_KEYS)]

\* root copy, add_multiple_klines: add_kline(kline, update) for every kline
\* of every chunk
add_multiple_klines_root(s, i, klines, update) ==
    LET formatted == format_historical_klines(s, i, klines)
        each == Flatten(chunks(formatted, ChunkRows))
    IN  [tbl |-> kline_table_name(s, i), target |-> kline_table_name(s, i),
         stmts |-> [j \in 1 .. Len(each) |-> <<Vals(each[j], KLINE_KEYS)>>],
         next |-> 1, update |-> update, recheck |-> TRUE, malformed |-> FALSE]

\* src copy, add_multiple_klines: one INSERT INTO {symbol}_{interval} per chunk
add_multiple_klines_src(s, i, klines, update) ==
    LET formatted == format_historical_klines(s, i, klines)
        cs == chunks(formatted, ChunkRows)
    IN  [tbl |-> <<>>, target |-> bulk_kline_target(s, i),
         stmts |-> [j \in 1 .. Len(cs) |->
                      [m \in 1 .. Len(cs[j]) |-> Vals(cs[j][m], KLINE_KEYS)]],
         next |-> 1, update |-> update, recheck |-> FALSE, malformed |-> FALSE]

\* add_multiple_trades: one INSERT per chunk yield_trades yields
add_multiple_trades(s, trades, update) ==
    [tbl |-> trade_table_name(s), target |-> trade_table_name(s),
     stmts |-> add_multiple_trades_loop(trades, NewGenerator, ChunkRows, <<>>), next |-> 1,
     update |-> update, recheck |-> FALSE, malformed |-> FALSE]

\* a catch-up that passes update=True
catch_up_job_overwrites(h) ==
    IF socket = "trade" THEN add_multiple_trades(symbol, h, TRUE)
    ELSE IF copy = "root" THEN add_multiple_klines_root(symbol, Interval, h, TRUE)
    ELSE add_multiple_klines_src(symbol, Interval, h, TRUE)

\* _kline_catch_up and _trade_catch_up pass update=False
catch_up_job(h) ==
    IF socket = "trade" THEN add_multiple_trades(symbol, h, FALSE)
    ELSE IF copy = "root" THEN add_multiple_klines_root(symbol, Interval, h, FALSE)
    ELSE add_multiple_klines_src(symbol, Interval, h, FALSE)

\* where a thread goes when its write is complete
Finished(t) == IF t = "live" THEN "close" ELSE "done"

\* where a thread goes once the entity is known: to its next statement, if any
AfterCheck(t, j) == IF j.next <= Len(j.stmts) THEN "ins_exec" ELSE Finished(t)

\* the entities the process may find in the store when it starts
InitialDbs(name, columns) ==
    {NoTables, Ext(NoTables, name, [columns |-> columns, rows |-> {}])}

\* the connection after the import of database.py: update_tables() has run
\* and its listing has been fetched
InitialStore(d) ==
    [db |-> d, committed |-> d, aborted |-> FALSE, cur |-> [has |-> TRUE, rows |-> {}]]

\* no function is being called on its own
NoCall == [fn |-> "none"]

NotReturned == [done |-> FALSE]

Returned(v) == [done |-> TRUE, val |-> v]

\* the module after import, before start_socket
Loaded ==
    /\ copy \in Copies
    /\ socket \in Sockets
    /\ symbol \in Symbols
    /\ \E d \in InitialDbs(Entity, Columns) :
         /\ store = InitialStore(d)
         /\ tables = DOMAIN d
         /\ existed = (d # NoTables)
    /\ err = [t \in Threads |-> "none"]
    /\ pc = [t \in Threads |-> IF t = "live" THEN "connecting" ELSE "idle"]
    /\ job = [t \in Threads |-> NoJob]
    /\ fetched = [t \in Threads |-> {}]
    /\ delivered = <<>>
    /\ hist = <<>>
    /\ connection = "none"
    /\ cancelled = FALSE

Init ==
    /\ Loaded
    /\ arg = NoCall
    /\ ret = NotReturned

\* a run_socket that starts the catch-up thread whatever the socket is
run_socket_start_always_catches_up ==
    /\ pc["live"] = "connecting"
    /\ pc' = [pc EXCEPT !["live"] = "opening", !["bf"] = "fetch"]
    /\ connection' = "open"
    /\ UNCHANGED <<copy, socket, symbol, store, tables, job, fetched, delivered, hist, err, existed, cancelled, arg, ret>>

\* run_socket before the stream: AsyncClient.create opens the client's
\* connection, kline_catch_up / trade_catch_up start the catch-up thread and
\* bm.kline_socket / bm.trade_socket prepares the stream; the else branch
\* (bm.ticker_socket) starts no thread
run_socket_start ==
    /\ pc["live"] = "connecting"
    /\ pc' = [pc EXCEPT !["live"] = "opening",
                        !["bf"] = IF socket \in {"kline", "trade"} THEN "fetch" ELSE @]
    /\ connection' = "open"
    /\ UNCHANGED <<copy, socket, symbol, store, tables, job, fetched, delivered, hist, err, existed, cancelled, arg, ret>>

\* async with ts as tscm: the stream is established
run_socket_open ==
    /\ pc["live"] = "opening"
    /\ pc' = [pc EXCEPT !["live"] = "recv"]
    /\ UNCHANGED <<copy, socket, symbol, store, tables, job, fetched, delivered, hist, err, existed, connection, cancelled, arg, ret>>

\* async with ts as tscm raises: the stream cannot be established
run_socket_open_fails ==
    /\ pc["live"] = "opening"
    /\ pc' = [pc EXCEPT !["live"] = "failed"]
    /\ err' = [err EXCEPT !["live"] = "connect"]
    /\ UNCHANGED <<copy, socket, symbol, store, tables, job, fetched, delivered, hist, existed, connection, cancelled, arg, ret>>

\* res = await tscm.recv(), then add_kline(res['k']) or add_trade(res); the feed
\* delivers at most n events
receive(n) ==
    /\ pc["live"] = "recv"
    /\ Len(delivered) < n
    /\ \E res \in LiveEvents(socket, symbol) :
         /\ delivered' = Append(delivered, res)
         /\ job' = IF socket \in {"kline", "trade"}
                   THEN [job EXCEPT !["live"] = live_job(res)]
                   ELSE job
    /\ pc' = [pc EXCEPT !["live"] = IF socket \in {"kline", "trade"} THEN "check"
                                    ELSE "close"]
    /\ UNCHANGED <<copy, socket, symbol, store, tables, fetched, hist, err, existed, connection, cancelled, arg, ret>>

run_socket_recv == receive(MaxEvents)

\* await client.close_connection(), then back to the top of the loop
run_socket_close ==
    /\ pc["live"] = "close"
    /\ pc' = [pc EXCEPT !["live"] = "recv"]
    /\ connection' = "closed"
    /\ UNCHANGED <<copy, socket, symbol, store, tables, job, fetched, delivered, hist, err, existed, cancelled, arg, ret>>

\* client.get_klines / client.get_historical_trades returns, and the catch-up
\* thread enters add_multiple_klines / add_multiple_trades
catch_up_fetch ==
    /\ pc["bf"] = "fetch"
    /\ \E h \in HistLists(socket) :
         /\ hist' = h
         /\ job' = [job EXCEPT !["bf"] = catch_up_job(h)]
         /\ pc' = [pc EXCEPT !["bf"] =
                     IF socket = "trade" THEN "check"
                     ELSE IF h = <<>> THEN "done"
                     ELSE IF copy = "root" THEN "check"
                     ELSE "ins_exec"]
    /\ UNCHANGED <<copy, socket, symbol, store, tables, fetched, delivered, err, existed, connection, cancelled, arg, ret>>

\* a historical request whose failure is swallowed: the catch-up thread goes
\* on to write a record
catch_up_fetch_fails_and_writes ==
    /\ pc["bf"] = "fetch"
    /\ \E h \in {g \in HistLists(socket) : Len(g) = 1} :
         /\ hist' = h
         /\ job' = [job EXCEPT !["bf"] = catch_up_job(h)]
    /\ pc' = [pc EXCEPT !["bf"] = IF socket = "kline" /\ copy = "src" THEN "ins_exec"
                                  ELSE "check"]
    /\ err' = [err EXCEPT !["bf"] = "fetch"]
    /\ UNCHANGED <<copy, socket, symbol, store, tables, fetched, delivered, existed, connection, cancelled, arg, ret>>

\* the historical request raises: the catch-up thread ends
catch_up_fetch_fails ==
    /\ pc["bf"] = "fetch"
    /\ pc' = [pc EXCEPT !["bf"] = "failed"]
    /\ err' = [err EXCEPT !["bf"] = "fetch"]
    /\ UNCHANGED <<copy, socket, symbol, store, tables, job, fetched, delivered, hist, existed, connection, cancelled, arg, ret>>

\* a check that provisions whether or not the name is known
table_check_always_provisions(t) ==
    /\ pc[t] = "check"
    /\ pc' = [pc EXCEPT ![t] = "cr_exec"]
    /\ UNCHANGED <<copy, socket, symbol, store, tables, job, fetched, delivered, hist, err, existed, connection, cancelled, arg, ret>>

\* if table_name not in tables
table_check(t) ==
    /\ pc[t] = "check"
    /\ pc' = [pc EXCEPT ![t] = IF job[t].tbl \in tables THEN AfterCheck(t, job[t])
                               ELSE "cr_exec"]
    /\ UNCHANGED <<copy, socket, symbol, store, tables, job, fetched, delivered, hist, err, existed, connection, cancelled, arg, ret>>

\* create_table: execute_command(CREATE TABLE IF NOT EXISTS ...), cur.execute
create_table_execute(t) ==
    /\ pc[t] = "cr_exec"
    /\ LET r == ExecCreate(store, format_table_name(job[t].tbl), Columns)
       IN  /\ store' = r.st
           /\ pc' = [pc EXCEPT ![t] = IF r.ok THEN "cr_commit" ELSE "failed"]
           /\ err' = [err EXCEPT ![t] = IF r.ok THEN @ ELSE "create"]
    /\ UNCHANGED <<copy, socket, symbol, tables, job, fetched, delivered, hist, existed, connection, cancelled, arg, ret>>

\* create_table: execute_command, conn.commit()
create_table_commit(t) ==
    /\ pc[t] = "cr_commit"
    /\ store' = Commit(store)
    /\ pc' = [pc EXCEPT ![t] = "ut_exec"]
    /\ UNCHANGED <<copy, socket, symbol, tables, job, fetched, delivered, hist, err, existed, connection, cancelled, arg, ret>>

\* update_tables: execute_command(SELECT relname ..., fetch_func='fetchall'), cur.execute
update_tables_execute(t) ==
    /\ pc[t] = "ut_exec"
    /\ LET r == ExecSelect(store)
       IN  /\ store' = r.st
           /\ pc' = [pc EXCEPT ![t] = IF r.ok THEN "ut_fetch" ELSE "failed"]
           /\ err' = [err EXCEPT ![t] = IF r.ok THEN @ ELSE "select"]
    /\ UNCHANGED <<copy, socket, symbol, tables, job, fetched, delivered, hist, existed, connection, cancelled, arg, ret>>

\* update_tables: return cur.fetchall() (no commit on this path)
update_tables_fetchall(t) ==
    /\ pc[t] = "ut_fetch"
    /\ LET r == Fetchall(store)
       IN  /\ store' = r.st
           /\ fetched' = [fetched EXCEPT ![t] = r.rows]
           /\ pc' = [pc EXCEPT ![t] = IF r.ok THEN "ut_assign" ELSE "failed"]
           /\ err' = [err EXCEPT ![t] = IF r.ok THEN @ ELSE "fetchall"]
    /\ UNCHANGED <<copy, socket, symbol, tables, job, delivered, hist, existed, connection, cancelled, arg, ret>>

\* an update_tables that adds the name just provisioned to the known set
\* without asking the store
update_tables_assign_adds_name(t) ==
    /\ pc[t] = "ut_assign"
    /\ tables' = tables \cup {job[t].tbl}
    /\ pc' = [pc EXCEPT ![t] = AfterCheck(t, job[t])]
    /\ UNCHANGED <<copy, socket, symbol, store, job, fetched, delivered, hist, err, existed, connection, cancelled, arg, ret>>

\* update_tables: tables = set(x[0] for x in _tables)
update_tables_assign(t) ==
    /\ pc[t] = "ut_assign"
    /\ tables' = fetched[t]
    /\ pc' = [pc EXCEPT ![t] = AfterCheck(t, job[t])]
    /\ UNCHANGED <<copy, socket, symbol, store, job, fetched, delivered, hist, err, existed, connection, cancelled, arg, ret>>

\* vals = tuple([k[x] for x in KEYS]), which raises KeyError on a message that
\* lacks a field; then execute_command(INSERT ...), cur.execute
insert_execute(t) ==
    /\ pc[t] = "ins_exec"
    /\ LET j == job[t]
           r == IF j.malformed THEN [ok |-> FALSE, st |-> store]
                ELSE ExecInsert(store, j.target, j.stmts[j.next], j.update)
       IN  /\ store' = r.st
           /\ pc' = [pc EXCEPT ![t] = IF r.ok THEN "ins_commit" ELSE "failed"]
           /\ err' = [err EXCEPT ![t] = IF r.ok THEN @
                                        ELSE IF j.malformed THEN "vals" ELSE "insert"]
    /\ UNCHANGED <<copy, socket, symbol, tables, job, fetched, delivered, hist, existed, connection, cancelled, arg, ret>>

\* a write loop that ends after its first statement
insert_commit_then_stops(t) ==
    /\ pc[t] = "ins_commit"
    /\ store' = Commit(store)
    /\ job' = [job EXCEPT ![t].next = @ + 1]
    /\ pc' = [pc EXCEPT ![t] = Finished(t)]
    /\ UNCHANGED <<copy, socket, symbol, tables, fetched, delivered, hist, err, existed, connection, cancelled, arg, ret>>

\* execute_command(INSERT ...), conn.commit(); then the next record or chunk
insert_commit(t) ==
    /\ pc[t] = "ins_commit"
    /\ store' = Commit(store)
    /\ LET j == [job[t] EXCEPT !.next = @ + 1]
       IN  /\ job' = [job EXCEPT ![t] = j]
           /\ pc' = [pc EXCEPT ![t] =
                       IF j.next > Len(j.stmts) THEN Finished(t)
                       ELSE IF j.recheck THEN "check"
                       ELSE "ins_exec"]
    /\ UNCHANGED <<copy, socket, symbol, tables, fetched, delivered, hist, err, existed, connection, cancelled, arg, ret>>

Next ==
    \/ run_socket_start
    \/ run_socket_open
    \/ run_socket_open_fails
    \/ run_socket_recv
    \/ run_socket_close
    \/ catch_up_fetch
    \/ catch_up_fetch_fails
    \/ \E t \in Threads :
         \/ table_check(t)
         \/ create_table_execute(t)
         \/ create_table_commit(t)
         \/ update_tables_execute(t)
         \/ update_tables_fetchall(t)
         \/ update_tables_assign(t)
         \/ insert_execute(t)
         \/ insert_commit(t)

Spec == Init /\ [][Next]_vars

\* the consumer alone: the catch-up thread is started and stays in its
\* historical request
NextLive ==
    \/ run_socket_start
    \/ run_socket_open
    \/ run_socket_open_fails
    \/ receive(MaxLiveEvents)
    \/ run_socket_close
    \/ table_check("live")
    \/ create_table_execute("live")
    \/ create_table_commit("live")
    \/ update_tables_execute("live")
    \/ update_tables_fetchall("live")
    \/ update_tables_assign("live")
    \/ insert_execute("live")
    \/ insert_commit("live")

SpecLive == Init /\ [][NextLive]_vars

\* whoever holds the thread start_socket returned asks the consumer to stop
\* while it awaits an event: run_socket, start_loop and start_socket have no
\* statement that takes notice
cancel ==
    /\ pc["live"] = "recv"
    /\ ~cancelled
    /\ cancelled' = TRUE
    /\ UNCHANGED <<copy, socket, symbol, store, tables, pc, job, fetched, delivered, hist,
                   err, existed, connection, arg, ret>>

\* the consumer's own steps: everything but the arrival of an event, which
\* is up to the feed
Running ==
    \/ run_socket_start
    \/ run_socket_open
    \/ run_socket_open_fails
    \/ run_socket_close
    \/ table_check("live")
    \/ create_table_execute("live")
    \/ create_table_commit("live")
    \/ update_tables_execute("live")
    \/ update_tables_fetchall("live")
    \/ update_tables_assign("live")
    \/ insert_execute("live")
    \/ insert_commit("live")

\* the consumer alone, asked to stop at some point; the event loop keeps
\* running the consumer's steps, the feed delivers events or stays silent
NextCancel == NextLive \/ cancel

SpecCancel == Init /\ [][NextCancel]_vars /\ WF_vars(Running)

\* the catch-up thread on its own, the consumer still waiting for its
\* stream to open; the thread runs whenever it can
NextBackfill ==
    \/ run_socket_start
    \/ catch_up_fetch
    \/ catch_up_fetch_fails
    \/ table_check("bf")
    \/ create_table_execute("bf")
    \/ create_table_commit("bf")
    \/ update_tables_execute("bf")
    \/ update_tables_fetchall("bf")
    \/ update_tables_assign("bf")
    \/ insert_execute("bf")
    \/ insert_commit("bf")

SpecBackfill == Init /\ [][NextBackfill]_vars /\ WF_vars(NextBackfill)

(***************************************************************************)
(* The functions of the database module that touch no module state,       *)
(* called on their own: arg holds the call, ret what it returned.          *)
(***************************************************************************)
\* rows of client.get_klines whose twelve positions hold different values,
\* beside the rows the catch-up is given
RawKlines ==
    {HistKline(1), HistKline(2),
     <<1, 11, 12, 13, 14, 15, 2, 17, 18, 19, 20, 21>>,
     <<3, 21, 20, 19, 18, 17, 4, 15, 14, 13, 12, 11>>}

\* records of client.get_historical_trades whose fields hold different values
RawTrades ==
    {HistTrade(1, 7), HistTrade(2, 8),
     [id |-> 11, price |-> 12, qty |-> 13, quoteQty |-> 14, time |-> 15,
      isBuyerMaker |-> TRUE, isBestMatch |-> FALSE]}

\* table names: empty, starting with a digit, with a letter, with another sign
Names == SeqsUpTo({"1", "9", "b", "B", "_"}, 2)

Calls ==
    {[fn |-> "chunks", data |-> d, rows |-> r] :
        d \in SeqsUpTo({1, 2}, MaxData), r \in 1 .. MaxRows}
    \cup {[fn |-> "format_historical_klines", symbol |-> s, interval |-> Interval,
           klines |-> k] : s \in Symbols, k \in SeqsUpTo(RawKlines, MaxRaw)}
    \cup {[fn |-> "format_historical_trades", symbol |-> s, trades |-> t] :
           s \in Symbols, t \in SeqsUpTo(RawTrades, MaxRaw)}
    \cup {[fn |-> "yield_trades", trades |-> t, rows |-> r] :
           t \in SeqsUpTo(RawTrades, MaxRaw + 1), r \in {ChunkRows}}
    \cup {[fn |-> "format_table_name", table_name |-> n] : n \in Names}

InitCall ==
    /\ Loaded
    /\ arg \in Calls
    /\ ret = NotReturned

\* list(chunks(data, rows))
call_chunks ==
    /\ arg.fn = "chunks"
    /\ ~ret.done
    /\ ret' = Returned(chunks(arg.data, arg.rows))
    /\ UNCHANGED <<copy, socket, symbol, store, tables, pc, job, fetched, delivered, hist,
                   err, existed, connection, cancelled, arg>>

call_format_historical_klines ==
    /\ arg.fn = "format_historical_klines"
    /\ ~ret.done
    /\ ret' = Returned(format_historical_klines(arg.symbol, arg.interval, arg.klines))
    /\ UNCHANGED <<copy, socket, symbol, store, tables, pc, job, fetched, delivered, hist,
                   err, existed, connection, cancelled, arg>>

call_format_historical_trades ==
    /\ arg.fn = "format_historical_trades"
    /\ ~ret.done
    /\ ret' = Returned(format_historical_trades(arg.symbol, arg.trades))
    /\ UNCHANGED <<copy, socket, symbol, store, tables, pc, job, fetched, delivered, hist,
                   err, existed, connection, cancelled, arg>>

\* list(yield_trades(trades)), each chunk as it is when it is yielded
call_yield_trades ==
    /\ arg.fn = "yield_trades"
    /\ ~ret.done
    /\ ret' = Returned(yield_trades(arg.trades, arg.rows))
    /\ UNCHANGED <<copy, socket, symbol, store, tables, pc, job, fetched, delivered, hist,
                   err, existed, connection, cancelled, arg>>

call_format_table_name ==
    /\ arg.fn = "format_table_name"
    /\ ~ret.done
    /\ ret' = Returned(format_table_name(arg.table_name))
    /\ UNCHANGED <<copy, socket, symbol, store, tables, pc, job, fetched, delivered, hist,
                   err, existed, connection, cancelled, arg>>

NextCall ==
    \/ call_chunks
    \/ call_format_historical_klines
    \/ call_format_historical_trades
    \/ call_yield_trades
    \/ call_format_table_name

SpecCall == InitCall /\ [][NextCall]_vars

(***************************************************************************)
(* delete_table, called from the main thread with no consumer running, as  *)
(* the script at the end of database.py does.                              *)
(***************************************************************************)
\* the names of the entities of the symbols
EntityNames ==
    {kline_table_name(s, Interval) : s \in Symbols} \cup {trade_table_name(s) : s \in Symbols}

\* the names delete_table is given: entity names, and the lower-case name of
\* a symbol's bars before format_table_name
DeleteNames == EntityNames \cup {Lower(s \o <<"_">> \o Interval) : s \in Symbols}

DeleteCalls ==
    {[fn |-> "delete_table", table_name |-> n, not_exists_okay |-> o] :
        n \in DeleteNames, o \in BOOLEAN}

\* the stores the script may find: any of the entities, without rows
AdminDbs ==
    {[n \in S |-> [columns |-> IF n \in {trade_table_name(s) : s \in Symbols}
                               THEN TRADE_COLUMNS ELSE KLINE_COLUMNS,
                   rows |-> {}]] : S \in SUBSET EntityNames}

InitAdmin ==
    /\ copy \in Copies
    /\ socket = "kline"
    /\ symbol = <<"B">>
    /\ \E d \in AdminDbs :
         /\ store = InitialStore(d)
         /\ tables = DOMAIN d
         /\ existed = (d # NoTables)
    /\ err = [t \in Threads |-> "none"]
    /\ pc = [t \in Threads |-> IF t = "live" THEN "connecting" ELSE "idle"]
    /\ job = [t \in Threads |-> NoJob]
    /\ fetched = [t \in Threads |-> {}]
    /\ delivered = <<>>
    /\ hist = <<>>
    /\ connection = "none"
    /\ cancelled = FALSE
    /\ arg \in DeleteCalls
    /\ ret = NotReturned

\* a delete_table that drops and leaves the known set as it was
delete_table_outcome_without_update(st, tbls, name, not_exists_okay) ==
    LET n == format_table_name(name)
    IN  IF n \notin tbls /\ not_exists_okay
        THEN [raised |-> FALSE, issued |-> <<>>, st |-> st, tables |-> tbls]
        ELSE LET d == ExecDrop(st, n)
             IN  IF ~d.ok
                 THEN [raised |-> TRUE, issued |-> <<"drop">>, st |-> d.st, tables |-> tbls]
                 ELSE [raised |-> FALSE, issued |-> <<"drop">>, st |-> Commit(d.st),
                       tables |-> tbls]

\* database.delete_table in program order: the early return, then
\* execute_command(DROP TABLE ...) with its commit, then update_tables()
delete_table_outcome(st, tbls, name, not_exists_okay) ==
    LET n == format_table_name(name)
    IN  IF n \notin tbls /\ not_exists_okay
        THEN [raised |-> FALSE, issued |-> <<>>, st |-> st, tables |-> tbls]
        ELSE LET d == ExecDrop(st, n)
             IN  IF ~d.ok
                 THEN [raised |-> TRUE, issued |-> <<"drop">>, st |-> d.st, tables |-> tbls]
                 ELSE LET q == ExecSelect(Commit(d.st))
                          f == Fetchall(q.st)
                      IN  [raised |-> ~q.ok \/ ~f.ok, issued |-> <<"drop", "select">>,
                           st |-> f.st, tables |-> IF q.ok /\ f.ok THEN f.rows ELSE tbls]

delete_table ==
    /\ arg.fn = "delete_table"
    /\ ~ret.done
    /\ LET r == delete_table_outcome(store, tables, arg.table_name, arg.not_exists_okay)
       IN  /\ store' = r.st
           /\ tables' = r.tables
           /\ ret' = Returned([raised |-> r.raised, issued |-> r.issued])
    /\ UNCHANGED <<copy, socket, symbol, pc, job, fetched, delivered, hist, err, existed,
                   connection, cancelled, arg>>

\* the caller goes on to its next delete_table, unless the last one raised
delete_table_again ==
    /\ arg.fn = "delete_table"
    /\ ret.done
    /\ ~ret.val.raised
    /\ arg' \in DeleteCalls
    /\ ret' = NotReturned
    /\ UNCHANGED <<copy, socket, symbol, store, tables, pc, job, fetched, delivered, hist,
                   err, existed, connection, cancelled>>

NextAdmin ==
    \/ delete_table
    \/ delete_table_again

SpecAdmin == InitAdmin /\ [][NextAdmin]_vars

(***************************************************************************)
(* One whole call of add_kline / add_trade with nothing else running: the  *)
(* steps above, composed in program order.                                 *)
(***************************************************************************)
\* if table_name not in tables: create_table(...), which ends in update_tables()
ensure_table(st, tbls, name) ==
    IF name \in tbls THEN [ok |-> TRUE, st |-> st, tables |-> tbls]
    ELSE LET c == ExecCreate(st, format_table_name(name), Columns)
         IN  IF ~c.ok THEN [ok |-> FALSE, st |-> c.st, tables |-> tbls]
             ELSE LET q == ExecSelect(Commit(c.st))
                  IN  IF ~q.ok THEN [ok |-> FALSE, st |-> q.st, tables |-> tbls]
                      ELSE LET f == Fetchall(q.st)
                           IN  [ok |-> f.ok, st |-> f.st,
                                tables |-> IF f.ok THEN f.rows ELSE tbls]

\* add_kline(k, update) / add_trade(t, update) for the one-statement job j
add_record(st, tbls, j) ==
    LET p == ensure_table(st, tbls, j.tbl)
    IN  IF ~p.ok \/ j.malformed THEN [ok |-> FALSE, st |-> p.st, tables |-> p.tables]
        ELSE LET r == ExecInsert(p.st, j.target, j.stmts[1], j.update)
             IN  [ok |-> r.ok, st |-> IF r.ok THEN Commit(r.st) ELSE r.st,
                  tables |-> p.tables]

(***************************************************************************)
(* Vocabulary of the properties.                                           *)
(***************************************************************************)
\* the rows of the process's entity in a store's db
EntityRows(d) == IF Entity \in DOMAIN d THEN d[Entity].rows ELSE {}

\* the rows durably stored, and the rows the open transaction sees
Stored == EntityRows(store.committed)

Visible == EntityRows(store.db)

RowFor(rows, k) == {r \in rows : KeyOf(r) = k}

\* the row a live event is written as
LiveVals(res) == Vals(res, IF socket = "kline" THEN KLINE_KEYS ELSE TRADE_KEYS)

\* the rows the catch-up thread writes for what it fetched
BackfillRows == Flatten(catch_up_job(hist).stmts)

BackfillKeys == {KeyOf(BackfillRows[i]) : i \in 1 .. Len(BackfillRows)}

\* the event has every field and the store accepts its values
WellFormed(res) ==
    /\ Complete(res, IF socket = "kline" THEN KLINE_KEYS ELSE TRADE_KEYS)
    /\ RowCoercible(Columns, LiveVals(res))

AllWellFormed == \A i \in 1 .. Len(delivered) : WellFormed(delivered[i])

\* how many delivered events the consumer has finished writing
Handled == IF pc["live"] \in {"recv", "close"} THEN Len(delivered)
           ELSE Len(delivered) - 1

\* C1: one live (overwrite) write and one catch-up (keepExisting) write for
\* the same key, both completed, in whichever order their statements ran:
\* the stored row for the key is the live record, column for column.
C1_OverwriteWinsEitherOrder ==
    (/\ Len(delivered) = 1
     /\ Handled = 1
     /\ pc["bf"] = "done"
     /\ KeyOf(LiveVals(delivered[1])) \in BackfillKeys)
    => RowFor(Stored, KeyOf(LiveVals(delivered[1]))) = {LiveVals(delivered[1])}

C1_Witness ==
    /\ Len(delivered) = 1
    /\ Handled = 1
    /\ pc["bf"] = "done"
    /\ KeyOf(LiveVals(delivered[1])) \in BackfillKeys
    /\ LiveVals(delivered[1]) \in Stored

\* the last event delivered for key k, as a row
LastLive(k) ==
    LET is == {i \in 1 .. Len(delivered) : KeyOf(LiveVals(delivered[i])) = k}
        last == CHOOSE i \in is : \A j \in is : j <= i
    IN  LiveVals(delivered[last])

LiveKeysSeen == {KeyOf(LiveVals(delivered[i])) : i \in 1 .. Len(delivered)}

\* the first fetched record with key k, as a row
FirstBackfill(k) ==
    LET is == {i \in 1 .. Len(BackfillRows) : KeyOf(BackfillRows[i]) = k}
        first == CHOOSE i \in is : \A j \in is : i <= j
    IN  BackfillRows[first]

\* the store state every interleaving is to end in
ConvergedRows ==
    {LastLive(k) : k \in LiveKeysSeen}
        \cup {FirstBackfill(k) : k \in BackfillKeys \ LiveKeysSeen}

\* both tasks are over: the catch-up thread has ended after a successful
\* fetch, the consumer has ended or waits for an event that is not delivered
BothOver ==
    /\ pc["bf"] \in {"done", "failed"}
    /\ err["bf"] # "fetch"
    /\ pc["live"] \in {"recv", "failed"}

\* C2 (as claimed, for the top-level copy the claim cites): for well-formed
\* live events, when both tasks are over the entity holds the last live event
\* for every key the feed touched and the fetched record for every other
\* fetched key, whatever the interleaving.
C2_InterleavingsConverge ==
    (copy = "root" /\ AllWellFormed /\ BothOver) => Stored = ConvergedRows

\* the calls of the provisioning step: create_table's statement and
\* update_tables' statement and fetch
ProvisioningCalls == {"create", "select", "fetchall"}

\* C3 (as claimed): the consumer and the catch-up thread both run the
\* provisioning step for an entity not yet in the store; one entity results
\* and neither call raises.
C3_ConcurrentProvisioningSucceeds ==
    (~existed /\ AllWellFormed /\ ~(copy = "src" /\ socket = "kline"))
    => /\ DOMAIN store.committed \subseteq {Entity}
       /\ \A t \in Threads : err[t] \notin ProvisioningCalls

\* C4 (as claimed): no entity at start; the catch-up thread has written its N
\* fetched bars and is over before the first event arrives; then one live bar
\* with the start_time of a fetched bar is written.  Exactly N rows result,
\* the shared one with the live values, the others with the fetched values.
C4_BackfillThenLiveBar ==
    (/\ socket = "kline"
     /\ ~existed
     /\ pc["bf"] \in {"done", "failed"}
     /\ err["bf"] # "fetch"
     /\ hist # <<>>
     /\ delivered = <<>>)
    => \A res \in LiveEvents(socket, symbol) :
         (WellFormed(res) /\ KeyOf(LiveVals(res)) \in BackfillKeys)
         => LET after == add_record(store, tables, live_job(res))
                rows == EntityRows(after.st.committed)
            IN  /\ Cardinality(rows) = Len(hist)
                /\ LiveVals(res) \in rows
                /\ \A i \in 1 .. Len(BackfillRows) :
                     KeyOf(BackfillRows[i]) # KeyOf(LiveVals(res))
                     => BackfillRows[i] \in rows

\* the keys of the rows of the statement thread t is at
StatementKeys(t) ==
    LET vals == job[t].stmts[job[t].next]
    IN  {KeyOf(vals[i]) : i \in 1 .. Len(vals)}

\* C5: a keepExisting (update=False) statement that succeeds leaves every row
\* whose key it carries as it was: a row the live consumer wrote stays.
C5_KeepExistingLeavesRow ==
    [][\A t \in Threads :
         (pc[t] = "ins_exec" /\ pc'[t] = "ins_commit" /\ ~job[t].update)
         => \A r \in Visible :
              KeyOf(r) \in StatementKeys(t) => RowFor(Visible', KeyOf(r)) = {r}]_vars

\* the catch-up thread has executed a statement that carries the key of a row
\* the live consumer wrote, and the live row is there
C5_Witness ==
    /\ pc["bf"] = "ins_commit"
    /\ Handled >= 1
    /\ \E i \in 1 .. Handled :
         /\ KeyOf(LiveVals(delivered[i])) \in StatementKeys("bf")
         /\ LiveVals(delivered[i]) \in Visible

\* C6: from any state of the store and of `tables` the consumer can find when
\* it takes an event, writing the event twice with overwrite ends as writing
\* it once: same rows, same known set, same outcome of the call.
C6_OverwriteIdempotent ==
    pc["live"] = "recv"
    => \A res \in LiveEvents(socket, symbol) :
         LET once == add_record(store, tables, live_job(res))
             twice == add_record(once.st, once.tables, live_job(res))
         IN  /\ twice.st.committed = once.st.committed
             /\ twice.st.db = once.st.db
             /\ twice.tables = once.tables
             /\ twice.ok = once.ok

\* the consumer has written the same event twice in a row
C6_Witness ==
    /\ Len(delivered) = 2
    /\ Handled = 2
    /\ delivered[1] = delivered[2]
    /\ Stored = {LiveVals(delivered[1])}
    /\ Entity \in tables

\* the consumer's writes of a sequence of events from a given store, one call
\* after the other; a call that raises ends the consumer
RECURSIVE ApplyEvents(_, _, _)
ApplyEvents(st, tbls, events) ==
    IF events = <<>> THEN [ok |-> TRUE, st |-> st, tables |-> tbls]
    ELSE LET a == add_record(st, tbls, live_job(Head(events)))
         IN  IF a.ok THEN ApplyEvents(a.st, a.tables, Tail(events)) ELSE a

\* the store the process started with
StartDb == IF existed THEN Ext(NoTables, Entity, [columns |-> Columns, rows |-> {}])
           ELSE NoTables

\* q without its j-th element
Remove(q, j) == SubSeq(q, 1, j - 1) \o SubSeq(q, j + 1, Len(q))

\* the store is as the consumer would have left it after the events q
SameAsAfter(q) ==
    LET w == ApplyEvents(InitialStore(StartDb), DOMAIN StartDb, q)
    IN  Stored = EntityRows(w.st.committed) /\ tables = w.tables

\* delivered[j] was delivered before
Redelivery(j) == \E i \in 1 .. j - 1 : delivered[i] = delivered[j]

\* delivered[j] is the event last delivered before it for its key
RepeatsLatest(j) ==
    \E i \in 1 .. j - 1 :
        /\ delivered[i] = delivered[j]
        /\ \A m \in i + 1 .. j - 1 :
             KeyOf(LiveVals(delivered[m])) # KeyOf(LiveVals(delivered[j]))

\* C7 (as claimed): with the consumer alone, once it has written all that was
\* delivered, the store is as if any one re-delivered event had not been
\* delivered again.
C7_RedeliveryAnywhere ==
    (pc["live"] = "recv" /\ AllWellFormed)
    => \A j \in 2 .. Len(delivered) :
         Redelivery(j) => SameAsAfter(Remove(delivered, j))

\* C7 (amended): the same, for a re-delivered event that is still the last one
\* delivered for its key.
C7_RedeliveryOfLatest ==
    (pc["live"] = "recv" /\ AllWellFormed)
    => \A j \in 2 .. Len(delivered) :
         RepeatsLatest(j) => SameAsAfter(Remove(delivered, j))

\* an event is delivered again after an event for another key, and written
C7_Witness ==
    /\ pc["live"] = "recv"
    /\ AllWellFormed
    /\ Len(delivered) = 3
    /\ delivered[3] = delivered[1]
    /\ KeyOf(LiveVals(delivered[2])) # KeyOf(LiveVals(delivered[1]))
    /\ LiveVals(delivered[3]) \in Stored

\* C8 (as claimed): whenever a thread is about to issue an INSERT, the entity
\* the statement names exists in the store.
C8_InsertTargetExists ==
    \A t \in Threads :
        pc[t] = "ins_exec"
        => /\ ValidIdent(job[t].target)
           /\ Fold(job[t].target) \in DOMAIN store.db

\* a row with the values of an event delivered so far
IsLiveRow(r) == \E i \in 1 .. Len(delivered) : r = LiveVals(delivered[i])

\* C9: the catch-up thread writes with update=False and the consumer with
\* update=True, and a stored row that carries a live event's values is never
\* replaced by anything but a live event's values, whichever thread's step it is.
C9_BackfillNeverChangesLiveRow ==
    [][/\ ~job'["bf"].update
       /\ pc'["live"] \in {"check", "cr_exec", "ins_exec"} => job'["live"].update
       /\ \/ Stored' = Stored
          \/ \A r \in Stored :
                IsLiveRow(r)
                => \E r2 \in Stored' :
                     /\ KeyOf(r2) = KeyOf(r)
                     /\ \E i \in 1 .. Len(delivered') : r2 = LiveVals(delivered'[i])]_vars

\* the catch-up thread has finished writing records for both keys the
\* consumer wrote before or meanwhile, and both rows are the live ones
C9_Witness ==
    /\ pc["bf"] = "done"
    /\ Handled = 2
    /\ KeyOf(LiveVals(delivered[1])) # KeyOf(LiveVals(delivered[2]))
    /\ LiveKeysSeen \subseteq BackfillKeys
    /\ \A i \in 1 .. 2 : LiveVals(delivered[i]) \in Stored

\* no two rows of the entity share a key
UniqueKeys(rows) == \A r1, r2 \in rows : KeyOf(r1) = KeyOf(r2) => r1 = r2

\* C10 (as claimed, for the top-level copy the claim cites): when the catch-up
\* thread has returned from add_multiple_klines / add_multiple_trades without
\* an exception, every fetched key has a row and no key has two.
C10_BackfillLeavesNoGaps ==
    (copy = "root" /\ pc["bf"] = "done")
    => /\ \A k \in BackfillKeys : RowFor(Stored, k) # {}
       /\ UniqueKeys(Stored)

\* the row a statement's VALUES list puts under key k: the first with that key
FirstOf(vals, k) ==
    LET is == {i \in 1 .. Len(vals) : KeyOf(vals[i]) = k}
        first == CHOOSE i \in is : \A j \in is : i <= j
    IN  vals[first]

\* C11 (as claimed, for the top-level copy the claim cites): a keepExisting
\* (update=False) write always succeeds for a key no row holds: its statement
\* is accepted and puts the record's row under every key that had none, and
\* once the write has returned every key of the statement has a stored row.
C11_BackfillWriteOfAbsentKey ==
    [][\A t \in Threads :
         (copy = "root" /\ ~job[t].update)
         => /\ (pc[t] = "ins_exec" /\ pc'[t] # "ins_exec")
               => /\ pc'[t] = "ins_commit"
                  /\ \A k \in StatementKeys(t) :
                       RowFor(Visible, k) = {}
                       => RowFor(Visible', k) = {FirstOf(job[t].stmts[job[t].next], k)}
            /\ (pc[t] = "ins_commit" /\ pc'[t] # "ins_commit")
               => \A k \in StatementKeys(t) : RowFor(Stored', k) # {}]_vars

\* C12 (as claimed, for the top-level copy the claim cites): whenever the
\* consumer has returned from add_kline / add_trade for every event delivered
\* so far, the stored row of each key the feed touched is the last event
\* delivered for it, column for column, whatever was stored under the key.
C12_OverwriteStoresLastEvent ==
    (copy = "root" /\ pc["live"] \in {"recv", "close"})
    => \A k \in LiveKeysSeen : RowFor(Stored, k) = {LastLive(k)}

\* C13: no entity of the store ever holds two rows with one key, neither in
\* what is stored nor in what the open transaction sees, whatever single and
\* bulk writes of either conflict policy the two threads have interleaved.
C13_KeysUnique ==
    /\ \A n \in DOMAIN store.committed : UniqueKeys(store.committed[n].rows)
    /\ \A n \in DOMAIN store.db : UniqueKeys(store.db[n].rows)

\* the catch-up thread has written a batch in which two records share a key,
\* the consumer has written an event for a fetched key, and two keys are stored
C13_Witness ==
    /\ pc["bf"] = "done"
    /\ Len(BackfillRows) > Cardinality(BackfillKeys)
    /\ Handled >= 1
    /\ LiveKeysSeen \cap BackfillKeys # {}
    /\ Cardinality(Stored) >= 2
    /\ \E i \in 1 .. Handled : LiveVals(delivered[i]) \in Stored

\* C14 (as claimed): when a statement of add_multiple_klines /
\* add_multiple_trades has failed and the exception has ended the catch-up
\* thread, with no event delivered meanwhile, none of the records of the
\* batch is stored and the thread has stopped at the failing statement.
C14_FailedBatchNotApplied ==
    (pc["bf"] = "failed" /\ err["bf"] = "insert" /\ delivered = <<>>)
    => /\ \A i \in 1 .. Len(BackfillRows) : BackfillRows[i] \notin Stored
       /\ job["bf"].next \in 1 .. Len(job["bf"].stmts)

\* the fields add_kline / add_trade read from an event
LiveKeys == IF socket = "kline" THEN KLINE_KEYS ELSE TRADE_KEYS

\* C15 (as claimed): an event that lacks a required field is dropped and the
\* stream continues: the KeyError of the normalisation never ends the
\* consumer, which stays in its receive loop after such an event.
C15_MalformedEventDropped ==
    (\E i \in 1 .. Len(delivered) : ~Complete(delivered[i], LiveKeys))
    => /\ err["live"] # "vals"
       /\ pc["live"] # "failed"

\* the consumer is in its receive loop: it waits for an event or writes one
Streaming == pc["live"] \notin {"connecting", "opening", "failed"}

\* C16 (as claimed): while the consumer is in its receive loop the client's
\* connection stays open; receiving and writing an event never closes it.
C16_ConnectionKeptOpen ==
    Streaming => connection = "open"

\* the calls into the store that raise when the store rejects a statement
StoreCalls == {"create", "select", "insert"}

\* the store accepts every record the catch-up thread fetched
HistAccepted == \A i \in 1 .. Len(BackfillRows) : RowCoercible(Columns, BackfillRows[i])

\* C17 (as claimed, with the entity present and the top-level copy): a store
\* failure stays in the task that caused it: a task whose own records the
\* store accepts never has a statement rejected, whatever the other task on
\* the shared connection and cursor delivers to the store.
C17_FailureStaysLocal ==
    (copy = "root" /\ existed)
    => /\ HistAccepted => err["bf"] \notin StoreCalls
       /\ AllWellFormed => err["live"] \notin StoreCalls

\* the row a statement's VALUES list leaves under key k when it overwrites:
\* the last with that key
LastOf(vals, k) ==
    LET is == {i \in 1 .. Len(vals) : KeyOf(vals[i]) = k}
        last == CHOOSE i \in is : \A j \in is : j <= i
    IN  vals[last]

\* C18 (as claimed, for the top-level copy the claim cites): when a write
\* returns to its caller (its conn.commit() has returned), every key of its
\* statement has a stored row, the written one if the write overwrites; and
\* no step of either thread removes the row of a key that is stored.
C18_ReturnedWriteIsStored ==
    [][/\ \A t \in Threads :
            (copy = "root" /\ pc[t] = "ins_commit" /\ pc'[t] # "ins_commit")
            => \A k \in StatementKeys(t) :
                 /\ RowFor(Stored', k) # {}
                 /\ job[t].update
                    => RowFor(Stored', k) = {LastOf(job[t].stmts[job[t].next], k)}
       /\ \A r \in Stored : RowFor(Stored', KeyOf(r)) # {}]_vars

\* the calls whose exception the consumer's own event can cause
OwnCalls == {"none", "connect", "vals", "insert"}

\* C19: when the historical request of the catch-up thread has raised, the
\* thread has ended without issuing a write, and the consumer goes on as if it
\* ran alone: it fails only on an event of its own that lacks a field or that
\* the store rejects, and whenever it has written all that was delivered the
\* store and the known set are what its writes alone produce.
C19_RetrievalErrorEndsOnlyBackfill ==
    err["bf"] = "fetch"
    => /\ pc["bf"] = "failed"
       /\ job["bf"] = NoJob
       /\ hist = <<>>
       /\ err["live"] \in OwnCalls
       /\ err["live"] \in {"vals", "insert"} => ~WellFormed(delivered[Len(delivered)])
       /\ pc["live"] \in {"recv", "close"} => SameAsAfter(delivered)

\* the historical request has raised and the consumer has received and
\* written two events for different keys
C19_Witness ==
    /\ err["bf"] = "fetch"
    /\ pc["live"] = "recv"
    /\ Len(delivered) = 2
    /\ Stored = {LiveVals(delivered[1]), LiveVals(delivered[2])}
    /\ Cardinality(Stored) = 2

\* C20 (as claimed): the catch-up thread is started exactly once per run, on
\* entering the receive loop: the step that starts it leaves the consumer
\* with its stream established, and no later step starts it again.
C20_BackfillStartedOnceOnStreaming ==
    [][/\ (pc["bf"] = "idle" /\ pc'["bf"] # "idle")
          => (pc'["bf"] = "fetch" /\ pc'["live"] = "recv")
       /\ pc["bf"] # "idle" => pc'["bf"] # "idle"
       /\ (pc["bf"] \notin {"idle", "fetch"}) => pc'["bf"] # "fetch"]_vars

\* C21 (as claimed): a request to stop, made while the consumer awaits the
\* next event, eventually takes it out of the receive loop into a closed
\* state.
C21_CancellationCloses ==
    (cancelled /\ pc["live"] = "recv") ~> (pc["live"] = "closed")

\* a thread's INSERT statement is rejected in this step
InsertRaises(t) == pc[t] = "ins_exec" /\ pc'[t] = "failed" /\ err'[t] = "insert"

\* C22: when a thread's INSERT fails, the failure reaches the thread (it ends,
\* failed, and never issues the statement again), nothing is committed, and
\* the committed rows and the known set are what they were before the call.
C22_FailedUpsertChangesNothing ==
    [][\A t \in Threads :
         /\ InsertRaises(t) =>
              /\ store'.committed = store.committed
              /\ Stored' = Stored
              /\ tables' = tables
              /\ job' = job
         /\ (pc[t] = "failed" /\ err[t] = "insert") =>
              /\ pc'[t] = "failed"
              /\ err'[t] = "insert"
              /\ job'[t] = job[t]]_vars

\* the consumer's upsert has failed while rows are stored and the entity is known
C22_Witness ==
    /\ pc["live"] = "failed"
    /\ err["live"] = "insert"
    /\ Stored # {}
    /\ Entity \in tables

\* C23 (as claimed): the known set starts as the store's listing, holds an
\* identity once its create_table has returned (update_tables has assigned),
\* and no step of the consumer or the catch-up removes an identity from it.
C23_KnownSetOnlyGrows ==
    [][/\ tables \subseteq tables'
       /\ \A t \in Threads :
            (pc[t] = "ut_assign" /\ pc'[t] # "ut_assign") => job[t].tbl \in tables']_vars

\* the steps of create_table and of the update_tables it ends with
Provisioning == {"cr_exec", "cr_commit", "ut_exec", "ut_fetch", "ut_assign"}

\* C24: a write path that finds its entity's identity in the known set goes
\* straight to its statement (or ends, if it has none to issue): it enters no step of create_table or
\* update_tables, and its check leaves the store and the known set as they are.
C24_KnownIdentityNoProvisioning ==
    [][\A t \in Threads :
         (pc[t] = "check" /\ pc'[t] # "check" /\ job[t].tbl \in tables)
         => /\ pc'[t] \notin Provisioning
            /\ pc'[t] = AfterCheck(t, job[t])
            /\ tables' = tables
            /\ store' = store]_vars

\* on a store that had the entity from the start, both threads are past
\* their check and at their statement, and nothing was ever provisioned
C24_Witness ==
    /\ existed
    /\ pc["live"] = "ins_exec"
    /\ pc["bf"] = "ins_exec"
    /\ job["bf"].tbl \in tables
    /\ store.cur = [has |-> TRUE, rows |-> {}]

\* the least number of chunks of s records that hold m records
CeilDiv(m, s) == (m + s - 1) \div s

\* C25: chunks(data, S) with S >= 1 yields ceil(M/S) chunks, each but the
\* last of S records, none empty, which concatenated give data in its order
\* (no chunk for the empty list).
C25_ChunksPartition ==
    (arg.fn = "chunks" /\ ret.done) =>
        LET cs == ret.val
        IN  /\ Len(cs) = CeilDiv(Len(arg.data), arg.rows)
            /\ \A j \in 1 .. Len(cs) - 1 : Len(cs[j]) = arg.rows
            /\ \A j \in 1 .. Len(cs) : cs[j] # <<>>
            /\ Flatten(cs) = arg.data
            /\ (arg.data = <<>>) => (cs = <<>>)

\* chunks has returned for a list of records of two kinds whose last chunk
\* is short
C25_Witness ==
    /\ arg.fn = "chunks"
    /\ ret.done
    /\ arg.data = <<1, 2, 2, 1>>
    /\ arg.rows = 3
    /\ ret.val = << <<1, 2, 2>>, <<1>> >>

\* the catch-up thread has its list of statements
Planned == pc["bf"] \notin {"idle", "fetch"} /\ err["bf"] # "fetch"

\* C26 (as claimed): the bulk write path issues one statement per chunk:
\* ceil(M / ChunkRows) statements for M fetched records, each carrying
\* between 1 and ChunkRows records.
C26_OneStatementPerChunk ==
    Planned =>
        /\ Len(job["bf"].stmts) = CeilDiv(Len(hist), ChunkRows)
        /\ \A j \in 1 .. Len(job["bf"].stmts) :
             Len(job["bf"].stmts[j]) \in 1 .. ChunkRows

\* C27: format_historical_klines gives one record per raw row, in order,
\* taking start_time, end_time, open, close, high, low, volume, number of
\* trades, quote volume and the two taker volumes from positions 0, 6, 1, 4,
\* 2, 3, 5, 8, 7, 9 and 10 of the row, with final_bar true and both trade
\* ids -1. (Position n of the row is element n + 1 of the tuple.)
C27_HistoricalBarMapping ==
    (arg.fn = "format_historical_klines" /\ ret.done) =>
        /\ Len(ret.val) = Len(arg.klines)
        /\ \A j \in 1 .. Len(arg.klines) :
             LET row == arg.klines[j]
                 r == ret.val[j]
             IN  /\ r.t = row[1] /\ r.T = row[7]
                 /\ r.o = row[2] /\ r.c = row[5]
                 /\ r.h = row[3] /\ r.l = row[4]
                 /\ r.v = row[6] /\ r.n = row[9]
                 /\ r.q = row[8]
                 /\ r.V = row[10] /\ r.Q = row[11]
                 /\ r.x = TRUE
                 /\ r.f = -1 /\ r.L = -1
                 /\ Vals(r, KLINE_KEYS) =
                       <<row[1], row[7], -1, -1, row[2], row[5], row[3], row[4], row[6],
                         row[9], TRUE, row[8], row[10], row[11]>>

\* two different rows, every position of which holds a different value, have
\* been formatted
C27_Witness ==
    /\ arg.fn = "format_historical_klines"
    /\ ret.done
    /\ arg.klines = << <<1, 11, 12, 13, 14, 15, 2, 17, 18, 19, 20, 21>>,
                       <<3, 21, 20, 19, 18, 17, 4, 15, 14, 13, 12, 11>> >>
    /\ ret.val[2].c = 18

\* C28 (as claimed): a normalised historical trade has buyer_order_id,
\* seller_order_id and event_time all equal to the unknown sentinel, maker
\* from isBuyerMaker, and trade_id, price and quantity from id, price and qty.
C28_HistoricalTradeSentinels ==
    (arg.fn = "format_historical_trades" /\ ret.done) =>
        /\ Len(ret.val) = Len(arg.trades)
        /\ \A j \in 1 .. Len(arg.trades) :
             LET t == arg.trades[j]
                 r == ret.val[j]
             IN  /\ r.b = -1 /\ r.a = -1
                 /\ r.E = -1
                 /\ r.m = t.isBuyerMaker
                 /\ r.t = t.id /\ r.p = t.price /\ r.q = t.qty

\* C28 (as the code has it): the sentinel goes to buyer_order_id,
\* seller_order_id and trade_time; event_time is the historical record's
\* time; the rest as claimed, in format_historical_trades and in the tuples
\* yield_trades builds.
C28_HistoricalTradeMapping ==
    /\ (arg.fn = "format_historical_trades" /\ ret.done) =>
        /\ Len(ret.val) = Len(arg.trades)
        /\ \A j \in 1 .. Len(arg.trades) :
             LET t == arg.trades[j]
                 r == ret.val[j]
             IN  /\ r.b = -1 /\ r.a = -1 /\ r.T = -1
                 /\ r.E = t.time
                 /\ r.m = t.isBuyerMaker
                 /\ r.t = t.id /\ r.p = t.price /\ r.q = t.qty
    /\ (arg.fn = "yield_trades" /\ ret.done) =>
        LET rows == Flatten(ret.val)
        IN  /\ Len(rows) = Len(arg.trades)
            /\ \A j \in 1 .. Len(arg.trades) :
                 LET t == arg.trades[j]
                 IN  rows[j] = <<t.time, t.id, t.price, t.qty, -1, -1, -1, t.isBuyerMaker>>

\* a historical trade whose fields all differ has been normalised
C28_Witness ==
    /\ arg.fn = "format_historical_trades"
    /\ ret.done
    /\ Len(arg.trades) = 2
    /\ arg.trades[2].time = 15
    /\ ret.val[2].E = 15
    /\ ret.val[2].T = -1

\* the statements of a job that are still to be issued
Remaining(t) == Len(job[t].stmts) + 1 - job[t].next

\* the catch-up thread has ended, one way or the other
Over == pc["bf"] \in {"done", "failed"}

\* C29: once started, the catch-up thread ends, whatever the length of the
\* fetched list (none, less than a chunk, a whole chunk, more); when it ends
\* without a failure it has issued every statement and every fetched
\* record's key is stored; and once it has ended nothing starts it again.
C29_BackfillRunsOnceToTheEnd ==
    /\ (pc["bf"] = "fetch") ~> Over
    /\ [](pc["bf"] = "done" =>
            /\ Remaining("bf") = 0
            /\ \A k \in BackfillKeys : RowFor(Stored, k) # {})
    /\ [][Over => (pc'["bf"] = pc["bf"] /\ job'["bf"] = job["bf"] /\ hist' = hist)]_vars

\* the trade catch-up has ended after writing a list of exactly one chunk
C29_Witness ==
    /\ socket = "trade"
    /\ pc["bf"] = "done"
    /\ Len(hist) = ChunkRows
    /\ Len(job["bf"].stmts) = 1
    /\ \A k \in BackfillKeys : RowFor(Stored, k) # {}

\* C30: format_table_name returns 'num_' + name for a name whose first
\* character is a digit and the name itself otherwise, the empty name
\* included; what it returns never begins with a digit.
C30_DigitNamesPrefixed ==
    (arg.fn = "format_table_name" /\ ret.done) =>
        LET name == arg.table_name
        IN  /\ (name # <<>> /\ Head(name) \in Digits)
                => ret.val = <<"n", "u", "m", "_">> \o name
            /\ (name = <<>> \/ Head(name) \notin Digits) => ret.val = name
            /\ ret.val # <<>> => Head(ret.val) \notin Digits

\* a name that starts with a digit has been formatted
C30_Witness ==
    /\ arg.fn = "format_table_name"
    /\ ret.done
    /\ arg.table_name = <<"9", "b">>
    /\ ret.val = <<"n", "u", "m", "_", "9", "b">>

\* delete_table returns or raises in this step
Deleting == arg.fn = "delete_table" /\ ~ret.done /\ ret'.done

\* C31: delete_table of a name that is not known, with not_exists_okay,
\* issues nothing and leaves store and known set alone; without
\* not_exists_okay it issues the DROP and raises the store's error (nothing
\* is dropped, the known set stays); of a known name it drops the entity,
\* and the name is no longer known afterwards.
C31_DeleteTable ==
    [][Deleting =>
        LET n == format_table_name(arg.table_name)
            r == ret'.val
        IN  /\ (n \notin tables /\ arg.not_exists_okay)
                => /\ r.issued = <<>> /\ ~r.raised
                   /\ store' = store /\ tables' = tables
            /\ (n \notin tables /\ ~arg.not_exists_okay)
                => /\ r.issued = <<"drop">> /\ r.raised
                   /\ store'.committed = store.committed /\ tables' = tables
            /\ (n \in tables)
                => /\ ~r.raised /\ Head(r.issued) = "drop"
                   /\ n \notin DOMAIN store'.committed
                   /\ n \notin tables'
                   /\ store'.committed = Drop(store.committed, n)
                   /\ tables' = tables \ {n}]_vars

\* a known entity whose symbol starts with a digit has been dropped by its
\* unformatted name, another entity is still there
C31_Witness ==
    /\ arg = [fn |-> "delete_table", table_name |-> <<"1", "b", "_", "1", "m">>,
              not_exists_okay |-> FALSE]
    /\ ret.done
    /\ ~ret.val.raised
    /\ tables = {trade_table_name(<<"B">>)}
    /\ DOMAIN store.committed = tables

\* the rows of the fetched trades, normalised, in the order fetched
NormalisedTrades == [j \in 1 .. Len(hist) |-> yield_trades_vals(hist[j])]

\* C32: the statements add_multiple_trades builds carry the normalised
\* trades in input order, ChunkRows to a statement and the rest in the last,
\* none empty: statement j holds exactly the records of chunk j, although
\* every chunk is the one list the generator goes on to clear and refill.
C32_ChunkHoldsItsOwnRecords ==
    (socket = "trade" /\ Planned) =>
        LET stmts == job["bf"].stmts
            n == Len(hist)
        IN  /\ Len(stmts) = CeilDiv(n, ChunkRows)
            /\ \A j \in 1 .. Len(stmts) :
                 /\ stmts[j] # <<>>
                 /\ j < Len(stmts) => Len(stmts[j]) = ChunkRows
                 /\ stmts[j] = SubSeq(NormalisedTrades, (j - 1) * ChunkRows + 1,
                                      IF j * ChunkRows < n THEN j * ChunkRows ELSE n)
            /\ Flatten(stmts) = NormalisedTrades

\* the trade catch-up has written a full chunk and a rest
C32_Witness ==
    /\ socket = "trade"
    /\ pc["bf"] = "done"
    /\ Len(hist) = ChunkRows + 1
    /\ Len(job["bf"].stmts) = 2
    /\ Len(job["bf"].stmts[1]) = ChunkRows
    /\ job["bf"].stmts[2] = <<yield_trades_vals(hist[Len(hist)])>>

\* no thread is inside create_table or update_tables
Quiet == \A t \in Threads : pc[t] \notin Provisioning

\* C33: whenever no registry operation is under way, every name of the known
\* set is an entity of the store; and a writer about to insert into an
\* entity it found in the known set finds the entity there.
C33_KnownNamesExist ==
    /\ Quiet => tables \subseteq (DOMAIN store.committed \cap DOMAIN store.db)
    /\ \A t \in Threads :
         (pc[t] = "ins_exec" /\ job[t].tbl \in tables)
         => Fold(job[t].target) \in (DOMAIN store.committed \cap DOMAIN store.db)

\* the entity was provisioned in this run and both threads, having found it
\* in the known set, are about to insert
C33_Witness ==
    /\ ~existed
    /\ Quiet
    /\ Entity \in tables
    /\ pc["live"] = "ins_exec"
    /\ pc["bf"] = "ins_exec"
    /\ job["bf"].tbl \in tables

\* C34: formatting a formatted name changes nothing, so the name add_kline
\* and add_trade look up in the known set (formatted once), the name
\* create_table provisions (formatted again) and the name the INSERT
\* targets are one name.
C34_FormatIdempotent ==
    (arg.fn = "format_table_name" /\ ret.done) =>
        LET checked == ret.val
            provisioned == format_table_name(checked)
            targeted == checked
        IN  /\ format_table_name(format_table_name(arg.table_name))
                 = format_table_name(arg.table_name)
            /\ provisioned = checked
            /\ provisioned = targeted

\* a digit-leading name has been formatted, and formatting the result again
\* gives the result
C34_Witness ==
    /\ arg.fn = "format_table_name"
    /\ ret.done
    /\ arg.table_name = <<"1", "b">>
    /\ ret.val # arg.table_name
    /\ format_table_name(ret.val) = ret.val

\* the entities of a store other than the process's own
Others(d) == [n \in DOMAIN d \ {Entity} |-> d[n]]

\* the rows of a set whose key is not in K
Except(rows, K) == {r \in rows : KeyOf(r) \notin K}

\* C35 (as claimed): a write of one record with key K changes no row of
\* another entity and no row of its entity with another key, and whatever a
\* step of the write does to the known set, it only adds names of entities
\* the store has.
C35_WriteFrame ==
    [][\A t \in Threads :
         /\ (pc[t] = "ins_exec" /\ pc'[t] = "ins_commit" /\ Len(job[t].stmts[job[t].next]) = 1)
              => /\ Except(Visible', StatementKeys(t)) = Except(Visible, StatementKeys(t))
                 /\ Others(store'.db) = Others(store.db)
         /\ (pc'[t] # pc[t] /\ pc[t] \in Provisioning \cup {"check", "ins_exec", "ins_commit"})
              => /\ tables \subseteq tables'
                 /\ (tables' \ tables) \subseteq DOMAIN store'.db]_vars

\* the steps of a write: the check, the provisioning and the INSERT
Writing == Provisioning \cup {"check", "ins_exec", "ins_commit"}

\* C36: with the ticker socket run_socket starts no catch-up thread, and no
\* received message leads to a write or to provisioning: the consumer is
\* never in a step of a write, no job is ever built, and the store, its
\* cursor and the known set stay as they were at import.
C36_TickerWritesNothing ==
    (socket = "ticker") =>
        /\ pc["bf"] = "idle"
        /\ hist = <<>>
        /\ pc["live"] \notin Writing
        /\ job = [t \in Threads |-> NoJob]
        /\ store = InitialStore(store.committed)
        /\ \A n \in DOMAIN store.db : store.db[n].rows = {}
        /\ tables = DOMAIN store.db
        /\ existed = (store.db # NoTables)
        /\ err["live"] \in {"none", "connect"}

\* the ticker consumer has received two messages and waits for the next
C36_Witness ==
    /\ socket = "ticker"
    /\ Len(delivered) = 2
    /\ pc["live"] = "recv"
    /\ connection = "closed"

====
